---- MODULE Spec2Model ----
(***************************************************************************)
(* A model of conway/torroidal.py: the wrap-around array ToroidalArray,    *)
(* the Grid built on two levels of it, and the generation step nextgen.    *)
(*                                                                         *)
(* Python lists are modelled as TLA+ sequences; a Python index k is the    *)
(* position k + 1 of the sequence.  bool is a subtype of int in Python     *)
(* (True == 1, False == 0), so a cell is modelled as the integer 0 or 1.   *)
(* An operation that can raise returns a record whose err field names the  *)
(* exception ("none" when it returns normally).                            *)
(***************************************************************************)
EXTENDS Integers, Sequences, FiniteSets, TLC

VARIABLES arr, alast, rpc, ri, rv, heap, cmp, grid1, grid2, glast

vars == <<arr, alast, rpc, ri, rv, heap, cmp, grid1, grid2, glast>>

arrayVars == <<arr, alast>>
removeVars == <<rpc, ri, rv>>
eqVars == <<heap, cmp>>
gridVars == <<grid1, grid2, glast>>

\* ---------------------------------------------------------------- bounds

\* Longest list held by a ToroidalArray in the array specifications.
MaxLen == 3
\* Indices handed to the array operations range over -MaxIndex .. MaxIndex.
MaxIndex == 7
\* Longest row and most rows of a grid built from rows of uneven lengths.
MaxWidth == 2
MaxHeight == 2
\* Most cells of a rectangular grid in the step specification.
MaxCells == 8

\* ------------------------------------------------------------- constants

LIVE == 1
DEAD == 0

\* Python's None, and an int that is present.
None == <<>>
Some(n) == <<n>>
IntOf(o) == o[1]

\* --------------------------------------------------------- ToroidalArray

\* _wrapped_index with the sign of the index lost.
_wrapped_index_sign(index, n) ==
    LET wrapped == index % n
    IN IF wrapped # 0 THEN n - wrapped ELSE 0

\* _wrapped_index with len(self) = n > 0.
_wrapped_index(index, n) ==
    LET wrapped == (-index) % n
    IN IF wrapped # 0 THEN n - wrapped ELSE 0

\* __getitem__ as a plain list has it: IndexError outside -len .. len - 1.
getitem_plain(list, index) ==
    IF index >= Len(list) \/ index < -Len(list)
    THEN [err |-> "IndexError", val |-> None, list |-> list]
    ELSE [err |-> "none", list |-> list,
          val |-> list[(IF index < 0 THEN index + Len(list) ELSE index) + 1]]

\* __getitem__: -index % 0 raises ZeroDivisionError on an empty array.
getitem(list, index) ==
    IF Len(list) = 0
    THEN [err |-> "ZeroDivisionError", val |-> None, list |-> list]
    ELSE [err |-> "none", val |-> list[_wrapped_index(index, Len(list)) + 1],
          list |-> list]

\* __setitem__
setitem(list, index, value) ==
    IF Len(list) = 0
    THEN [err |-> "ZeroDivisionError", val |-> None, list |-> list]
    ELSE [err |-> "none", val |-> None,
          list |-> [list EXCEPT ![_wrapped_index(index, Len(list)) + 1] = value]]

\* del self._list[idx]
ListDel(list, idx) ==
    SubSeq(list, 1, idx) \o SubSeq(list, idx + 2, Len(list))

\* __delitem__
delitem(list, index) ==
    IF Len(list) = 0
    THEN [err |-> "ZeroDivisionError", val |-> None, list |-> list]
    ELSE [err |-> "none", val |-> None,
          list |-> ListDel(list, _wrapped_index(index, Len(list)))]

\* list.insert(index, value): a negative index counts from the end, and the
\* position is clamped to 0 .. len.
ListInsertPos(n, index) ==
    LET i == IF index < 0 THEN index + n ELSE index
    IN IF i < 0 THEN 0 ELSE IF i > n THEN n ELSE i

\* insert: the index is handed to the list unwrapped.
insert(list, index, value) ==
    LET pos == ListInsertPos(Len(list), index)
    IN [err |-> "none", val |-> None,
        list |-> SubSeq(list, 1, pos) \o <<value>>
                 \o SubSeq(list, pos + 1, Len(list))]

\* MutableSequence.append: self.insert(len(self), value).
append(list, value) == insert(list, Len(list), value)

\* ------------------------------------------------- array specification

\* Element values, and every list of at most n of them.
Elems == {"a", "b"}
ListsUpTo(n) == UNION {[1..k -> Elems] : k \in 0..n}
Indices == (-MaxIndex)..MaxIndex

NoOp == [op |-> "none", index |-> 0, value |-> None, pre |-> <<>>,
         err |-> "none", val |-> None]

ArrayIdle == /\ rpc = "idle" /\ ri = 0 /\ rv = None
EqIdle == /\ heap = <<>> /\ cmp = None
GridIdle == /\ grid1 = None /\ grid2 = None /\ glast = None

InitArray ==
    /\ arr \in ListsUpTo(MaxLen)
    /\ alast = NoOp
    /\ ArrayIdle /\ EqIdle /\ GridIdle

\* One call of an indexed operation: the array takes the list the call
\* leaves, and alast records the call and its outcome.
Record(op, index, value, r) ==
    /\ arr' = r.list
    /\ alast' = [op |-> op, index |-> index, value |-> value, pre |-> arr,
                 err |-> r.err, val |-> r.val]

ArrayOnly == UNCHANGED <<removeVars, eqVars, gridVars>>

GetItem == /\ \E i \in Indices : Record("getitem", i, None, getitem(arr, i))
           /\ ArrayOnly

SetItem == /\ \E i \in Indices, v \in Elems :
                  Record("setitem", i, v, setitem(arr, i, v))
           /\ ArrayOnly

DelItem == /\ \E i \in Indices : Record("delitem", i, None, delitem(arr, i))
           /\ ArrayOnly

InsertItem == /\ Len(arr) < MaxLen
              /\ \E i \in Indices, v \in Elems :
                     Record("insert", i, v, insert(arr, i, v))
              /\ ArrayOnly

AppendItem == /\ Len(arr) < MaxLen
              /\ \E v \in Elems : Record("append", Len(arr), v, append(arr, v))
              /\ ArrayOnly

NextArray == GetItem \/ SetItem \/ DelItem \/ InsertItem \/ AppendItem

SpecArray == InitArray /\ [][NextArray]_vars

\* C5: on a non-empty array of length n, _wrapped_index(i) lies in [0, n),
\* is periodic in n, is i itself for 0 <= i < n, and is the non-negative
\* remainder of i modulo n; an indexed get returns the element there.
C5_WrapIsRemainder ==
    /\ Len(arr) > 0 =>
         LET n == Len(arr)
         IN \A i \in Indices :
                /\ _wrapped_index(i, n) \in 0..(n - 1)
                /\ _wrapped_index(i, n) = _wrapped_index(i + n, n)
                /\ _wrapped_index(i, n) = _wrapped_index(i - n, n)
                /\ (0 <= i /\ i < n) => _wrapped_index(i, n) = i
                /\ _wrapped_index(i, n) = i % n
    /\ (alast.op = "getitem" /\ alast.err = "none") =>
         alast.val = alast.pre[(alast.index % Len(alast.pre)) + 1]

\* A get with an index below -len has returned from an array of two or more.
C5_Witness ==
    /\ alast.op = "getitem" /\ alast.err = "none"
    /\ Len(alast.pre) >= 2
    /\ alast.index < -Len(alast.pre)

\* C10: an indexed get, set or delete fails exactly when the array is empty,
\* a failing call leaves the contents unchanged, a successful get or set keeps
\* the length (a set changes only the wrapped position), and a successful
\* delete removes exactly the element at the wrapped position.
C10_FailsIffEmpty ==
    alast.op \in {"getitem", "setitem", "delitem"} =>
        LET pre == alast.pre
            n == Len(pre)
            w == (alast.index % n) + 1
        IN /\ (alast.err # "none") <=> (n = 0)
           /\ alast.err # "none" => arr = pre
           /\ (alast.err = "none" /\ alast.op = "getitem") =>
                (arr = pre /\ alast.val = pre[w])
           /\ (alast.err = "none" /\ alast.op = "setitem") =>
                /\ Len(arr) = n
                /\ \A k \in 1..n :
                       arr[k] = IF k = w THEN alast.value ELSE pre[k]
           /\ (alast.err = "none" /\ alast.op = "delitem") =>
                /\ Len(arr) = n - 1
                /\ \A k \in 1..(n - 1) :
                       arr[k] = IF k < w THEN pre[k] ELSE pre[k + 1]

\* A delete with an out-of-range index has emptied a one-element array.
C10_Witness ==
    /\ alast.op = "delitem" /\ alast.err = "none"
    /\ Len(alast.pre) = 1 /\ arr = <<>>
    /\ alast.index > 1

\* ------------------------------------------- remove-by-value (inherited)

\* Probes of the search are capped at this position.
MaxProbe == 6

\* The array as constructed holds an element or more; removes may empty it.
InitRemove ==
    /\ arr \in ListsUpTo(MaxLen) \ {<<>>}
    /\ alast = NoOp
    /\ ArrayIdle /\ EqIdle /\ GridIdle

\* MutableSequence.remove(value): del self[self.index(value)].  The call,
\* made when no earlier one is running, enters Sequence.index with i = 0.
RemoveCall ==
    /\ rpc \notin {"index", "del"}
    /\ \E v \in Elems :
           /\ rv' = v
           /\ alast' = [NoOp EXCEPT !.op = "remove", !.value = v, !.pre = arr]
    /\ rpc' = "index"
    /\ ri' = 0
    /\ UNCHANGED <<arr, eqVars, gridVars>>

\* One turn of the loop of Sequence.index: v = self[i]; an IndexError ends
\* the search with ValueError, any other exception leaves the call, an equal
\* element returns i, and otherwise i += 1.
IndexProbe ==
    /\ rpc = "index"
    /\ ri < MaxProbe
    /\ LET r == getitem(arr, ri)
       IN /\ rpc' = IF r.err = "IndexError" THEN "ValueError"
                    ELSE IF r.err # "none" THEN r.err
                    ELSE IF r.val = rv THEN "del" ELSE "index"
          /\ ri' = IF r.err = "none" /\ r.val # rv THEN ri + 1 ELSE ri
    /\ UNCHANGED <<arr, alast, rv, eqVars, gridVars>>

\* del self[i] with the position the search returned.
RemoveDel ==
    /\ rpc = "del"
    /\ LET r == delitem(arr, ri)
       IN /\ arr' = r.list
          /\ rpc' = IF r.err = "none" THEN "done" ELSE r.err
    /\ UNCHANGED <<alast, ri, rv, eqVars, gridVars>>

NextRemove == RemoveCall \/ IndexProbe \/ RemoveDel

SpecRemove == InitRemove /\ [][NextRemove]_vars

\* The first occurrence of v in list (0 when there is none), and list
\* without its k-th element.
RECURSIVE FirstAt(_, _, _)
FirstAt(list, v, k) ==
    IF k > Len(list) THEN 0
    ELSE IF list[k] = v THEN k ELSE FirstAt(list, v, k + 1)
Without(list, k) == SubSeq(list, 1, k - 1) \o SubSeq(list, k + 1, Len(list))

\* C8: remove-by-value behaves as on an ordinary mutable sequence: the search
\* probes no position beyond len (so it ends), a remove that ends normally has
\* deleted the first occurrence and kept the order of the rest, and a remove
\* of a value that does not occur ends with the not-found failure
\* (ValueError), the array unchanged.
C8_RemoveLikeList ==
    alast.op = "remove" =>
        LET pre == alast.pre
            at == FirstAt(pre, rv, 1)
        IN /\ rpc = "index" => ri <= Len(pre)
           /\ rpc \in {"idle", "index", "del", "done", "ValueError"}
           /\ rpc = "done" => (at > 0 /\ arr = Without(pre, at))
           /\ rpc = "ValueError" => (at = 0 /\ arr = pre)
           /\ rpc = "del" => (at > 0 /\ ri = at - 1)

\* --------------------------------------------------------------- equality

\* Arrays alive at once in the equality specification.
MaxObjs == 2

\* ToroidalArray(seq): self._list = list(seq), a new object holding a copy.
ToroidalArray(seq) == [k \in 1..Len(seq) |-> seq[k]]

\* a == b for two ToroidalArrays.  The class defines no __eq__ and neither do
\* Sequence nor MutableSequence, so object.__eq__ decides: a is b.
object_eq(a, b) == a = b

InitEq ==
    /\ heap = <<>>
    /\ cmp = None
    /\ arr = <<>> /\ alast = NoOp /\ ArrayIdle /\ GridIdle

\* A new array object, named by its position in heap.
NewArray ==
    /\ Len(heap) < MaxObjs
    /\ \E src \in ListsUpTo(MaxLen) : heap' = Append(heap, ToroidalArray(src))
    /\ UNCHANGED <<cmp, arr, alast, removeVars, gridVars>>

\* a == b on two of the objects.
Compare ==
    /\ \E a \in 1..Len(heap), b \in 1..Len(heap) :
           cmp' = [a |-> a, b |-> b, result |-> object_eq(a, b)]
    /\ UNCHANGED <<heap, arr, alast, removeVars, gridVars>>

NextEq == NewArray \/ Compare

SpecEq == InitEq /\ [][NextEq]_vars

\* C9: two ToroidalArrays compare equal exactly when they have the same
\* length and equal elements at every position.
C9_EqualityElementwise ==
    cmp # None =>
        LET x == heap[cmp.a]
            y == heap[cmp.b]
        IN cmp.result <=>
              (Len(x) = Len(y) /\ \A k \in 1..Len(x) : x[k] = y[k])

\* ------------------------------------------------------------------- Grid

\* Point(x, y) and Point.__add__.
Point(x, y) == [x |-> x, y |-> y]
Point_add(p, rhs) == Point(p.x + rhs.x, p.y + rhs.y)

\* [v] * n: the empty list for n <= 0.
Repeat(v, n) == [k \in 1..n |-> v]

\* min(a, b), and max over a non-empty set of ints.
Min(a, b) == IF a < b THEN a ELSE b
MaxOf(S) == CHOOSE m \in S : \A k \in S : k <= m

\* Truthiness of an optional int: None and 0 are falsy.
Truthy(o) == o # None /\ IntOf(o) # 0

\* bool(cell) of an int.
bool(v) == IF v # 0 THEN LIVE ELSE DEAD

GridError == [err |-> "ValueError", grid |-> None]
GridOk(width, height, cells) ==
    [err |-> "none",
     grid |-> [width |-> width, height |-> height, cells |-> cells]]

\* The padding __post_init__ computes for a row.
Padding(max_width, row) == Min(0, max_width - Len(row))

\* Grid(width, height, cells): the dataclass's __init__ followed by
\* __post_init__.  width and height are None or Some(int); cells is None or
\* Some(rows), rows being the nested ToroidalArray.
Grid(width, height, cells) ==
    IF width = Some(0) \/ height = Some(0) THEN GridError
    ELSE IF cells = None /\ ~(Truthy(width) /\ Truthy(height)) THEN GridError
    ELSE IF cells = None
    THEN GridOk(width, height,
                Repeat(Repeat(DEAD, IntOf(width)), IntOf(height)))
    ELSE LET rows == cells[1]
             h == Len(rows)
         IN IF height # None /\ IntOf(height) # h THEN GridError
            \* max() of an empty sequence raises ValueError
            ELSE IF h = 0 THEN GridError
            ELSE LET max_width == MaxOf({Len(rows[k]) : k \in 1..h})
                 IN IF width # None /\ IntOf(width) < max_width
                    THEN GridError
                    ELSE GridOk(width, height,
                                [k \in 1..h |->
                                    rows[k] \o
                                    Repeat(DEAD, Padding(max_width, rows[k]))])

\* Grid.from_2d_seq(seq)
from_2d_seq(seq) ==
    Grid(None, None,
         Some([k \in 1..Len(seq) |->
                  [j \in 1..Len(seq[k]) |-> bool(seq[k][j])]]))

\* Grid.__getitem__: self.cells[cell.y][cell.x]
Grid_getitem(cells, cell) ==
    LET row == getitem(cells, cell.y)
    IN IF row.err # "none" THEN row ELSE getitem(row.val, cell.x)

\* Grid.__setitem__: self.cells[cell.y][cell.x] = value.  The result's list
\* field is the grid's cells after the call.
Grid_setitem(cells, cell, value) ==
    LET row == getitem(cells, cell.y)
    IN IF row.err # "none" THEN row
       ELSE LET w == setitem(row.val, cell.x, value)
            IN [err |-> w.err, val |-> None,
                list |-> IF w.err # "none" THEN cells
                         ELSE [cells EXCEPT
                                 ![_wrapped_index(cell.y, Len(cells)) + 1] =
                                     w.list]]

\* ---------------------------------------------------------------- nextgen

\* The directions with (0, 0) among them.
dirs_nine == {Point(x, y) : x \in {-1, 0, 1}, y \in {-1, 0, 1}}

\* The 8 (x, y) directions, in the order the source lists them, and the set
\* dirs built from them.
dir_list ==
    << Point(-1, -1), Point(-1, 0), Point(-1, 1), Point(0, -1),
       Point(0, 1), Point(1, -1), Point(1, 0), Point(1, 1) >>
dirs == {dir_list[k] : k \in 1..Len(dir_list)}

\* sum(grid1[p + d] for d in ds), ds a sequence holding the directions: the
\* sum so far is acc, and err is set when a lookup raises.  (A sum does not
\* depend on the order in which the set dirs is iterated.)
RECURSIVE SumLive(_, _, _, _, _)
SumLive(cells, p, ds, k, acc) ==
    IF k > Len(ds) THEN [err |-> "none", val |-> acc]
    ELSE LET c == Grid_getitem(cells, Point_add(p, ds[k]))
         IN IF c.err # "none" THEN [err |-> c.err, val |-> 0]
            ELSE SumLive(cells, p, ds, k + 1, acc + c.val)

\* An enumeration of a set of directions.
RECURSIVE SeqOf(_)
SeqOf(S) ==
    IF S = {} THEN <<>>
    ELSE LET d == CHOOSE e \in S : TRUE IN <<d>> \o SeqOf(S \ {d})

dirs_iter == SeqOf(dirs)

\* live_neighbors = sum(grid1[p + d] for d in dirs)
live_neighbors(cells, p) == SumLive(cells, p, dirs_iter, 1, 0)

\* The rule with the "stays the same" branch reading the results grid.
nextgen_value_stale(cells1, cells2, p, n) ==
    IF n < 2 \/ n > 3 THEN [err |-> "none", val |-> 0]
    ELSE IF n = 3 THEN [err |-> "none", val |-> 1]
    ELSE Grid_getitem(cells2, p)

\* The rule with the overpopulation bound one too high.
nextgen_value_crowded(cells1, cells2, p, n) ==
    IF n < 2 \/ n > 4 THEN [err |-> "none", val |-> 0]
    ELSE IF n = 3 THEN [err |-> "none", val |-> 1]
    ELSE Grid_getitem(cells1, p)

\* The value nextgen writes at p for n live neighbours.
nextgen_value(cells1, cells2, p, n) ==
    IF n < 2 \/ n > 3 THEN [err |-> "none", val |-> 0]
    ELSE IF n = 3 THEN [err |-> "none", val |-> 1]
    ELSE Grid_getitem(cells1, p)

\* The body of nextgen's loops for one cell p of grid1.  st holds grid2's
\* cells so far, the exception raised, if any, and a log of the loop's turns:
\* the cell p and the live_neighbors counted for it.
nextgen_cell(cells1, st, p) ==
    LET n == live_neighbors(cells1, p)
    IN IF n.err # "none" THEN [st EXCEPT !.err = n.err]
       ELSE LET v == nextgen_value(cells1, st.list, p, n.val)
                w == Grid_setitem(st.list, p, v.val)
            IN IF v.err # "none" THEN [st EXCEPT !.err = v.err]
               ELSE [err |-> w.err, list |-> w.list,
                     log |-> Append(st.log, [p |-> p, n |-> n.val])]

\* nextgen's loops with the last cell of every row left out.
RECURSIVE nextgen_loop_short(_, _, _, _)
nextgen_loop_short(cells1, st, y, x) ==
    IF st.err # "none" \/ y >= Len(cells1) THEN st
    ELSE IF x >= Len(cells1[y + 1]) - 1
    THEN nextgen_loop_short(cells1, st, y + 1, 0)
    ELSE nextgen_loop_short(cells1, nextgen_cell(cells1, st, Point(x, y)),
                            y, x + 1)

\* for y, row in enumerate(grid1.cells): for x in range(len(row)): ...
RECURSIVE nextgen_loop(_, _, _, _)
nextgen_loop(cells1, st, y, x) ==
    IF st.err # "none" \/ y >= Len(cells1) THEN st
    ELSE IF x >= Len(cells1[y + 1]) THEN nextgen_loop(cells1, st, y + 1, 0)
    ELSE nextgen_loop(cells1, nextgen_cell(cells1, st, Point(x, y)), y, x + 1)

\* nextgen(grid1, grid2): grid2's cells when it returns (or raises).
nextgen(cells1, cells2) ==
    nextgen_loop(cells1, [err |-> "none", list |-> cells2, log |-> <<>>], 0, 0)

\* ----------------------------------------------------- step specification

Cells == {DEAD, LIVE}

\* The rectangular shapes <<W, H>>: every one of at most MaxCells cells, and
\* the 3 x 3 torus, the smallest on which the 8 neighbours of a cell are 8
\* distinct cells.
RectShapes ==
    {sh \in (1..MaxCells) \X (1..MaxCells) : sh[1] * sh[2] <= MaxCells}
    \cup {<<3, 3>>}

\* Every W x H matrix of cells, every sequence of row lengths, and the rows
\* of a given shape filled with one value.
RectRows(W, H) == [1..H -> [1..W -> Cells]]
Shapes == UNION {[1..h -> 0..MaxWidth] : h \in 1..MaxHeight}
Shape(rows) == [k \in 1..Len(rows) |-> Len(rows[k])]
Fill(shape, v) == [k \in 1..Len(shape) |-> Repeat(v, shape[k])]

\* What the first grid is built from: every rectangular matrix, and rows of
\* uneven lengths (empty rows among them) filled with one value.
StepInputs ==
    UNION {RectRows(sh[1], sh[2]) : sh \in RectShapes}
    \cup {Fill(sh, v) : sh \in Shapes, v \in Cells}

\* The results grids for a first grid built from rows: the same rows filled
\* dead or live through from_2d_seq, and Grid(width, height) of the widest
\* row and the number of rows.
Buffers(rows) ==
    LET made == {from_2d_seq(Fill(Shape(rows), v)) : v \in Cells}
                \cup {Grid(Some(MaxOf({Len(rows[k]) : k \in 1..Len(rows)})),
                           Some(Len(rows)), None)}
    IN {m.grid : m \in {c \in made : c.err = "none"}}

InitStep ==
    /\ \E rows \in StepInputs :
           /\ grid1 = from_2d_seq(rows).grid
           /\ grid2 \in Buffers(rows)
    /\ glast = None
    /\ arr = <<>> /\ alast = NoOp /\ ArrayIdle /\ EqIdle

\* nextgen(src, dst) on the two grids; id names src (1 or 2), and the call
\* returns dst when it does not raise.
StepRecord(src, dst, id, r) ==
    [op |-> "nextgen", src |-> id, pre_src |-> src, pre_dst |-> dst,
     err |-> r.err, ret |-> IF r.err = "none" THEN 3 - id ELSE 0,
     log |-> r.log]

\* nextgen(grid1, grid2)
Step12 ==
    /\ LET r == nextgen(grid1.cells, grid2.cells)
       IN /\ grid2' = [grid2 EXCEPT !.cells = r.list]
          /\ glast' = StepRecord(grid1, grid2, 1, r)
    /\ UNCHANGED <<grid1, arrayVars, removeVars, eqVars>>

\* nextgen(grid2, grid1): the buffers swapped
Step21 ==
    /\ LET r == nextgen(grid2.cells, grid1.cells)
       IN /\ grid1' = [grid1 EXCEPT !.cells = r.list]
          /\ glast' = StepRecord(grid2, grid1, 2, r)
    /\ UNCHANGED <<grid2, arrayVars, removeVars, eqVars>>

NextStep == Step12 \/ Step21

SpecStep == InitStep /\ [][NextStep]_vars

\* cells is a W x H matrix with W, H >= 1, and two grids' cells are matrices
\* of the same width and height.
IsRect(cells) ==
    /\ Len(cells) > 0
    /\ Len(cells[1]) > 0
    /\ \A k \in 1..Len(cells) : Len(cells[k]) = Len(cells[1])
SameDims(c, d) ==
    /\ IsRect(c) /\ IsRect(d)
    /\ Len(c) = Len(d) /\ Len(c[1]) = Len(d[1])

\* A step of two separate grids of the same width and height has returned.
Stepped ==
    /\ glast # None
    /\ SameDims(glast.pre_src.cells, glast.pre_dst.cells)

\* After a step: the grid it read, and the grid it wrote.
Current == IF glast.src = 1 THEN grid1 ELSE grid2
Result == IF glast.src = 1 THEN grid2 ELSE grid1

\* The cell (x, y), 0-based, of a matrix, and whether it is live.
CellAt(cells, x, y) == cells[y + 1][x + 1]
Live(c) == c # 0

\* The number of the 8 offsets (dx, dy) for which the cell
\* ((x + dx) mod W, (y + dy) mod H) of a W x H matrix is live.
Offsets == ({-1, 0, 1} \X {-1, 0, 1}) \ {<<0, 0>>}
LiveOffsets(cells, x, y) ==
    LET W == Len(cells[1])
        H == Len(cells)
    IN Cardinality({o \in Offsets :
                       Live(CellAt(cells, (x + o[1]) % W, (y + o[2]) % H))})

\* C1: after a step of two grids of the same width and height, a cell that
\* was live in the grid read is live in the grid written exactly when its
\* live-neighbour count in the grid read is 2 or 3.
C1_LiveCellRule ==
    Stepped =>
        LET cur == glast.pre_src.cells
        IN \A y \in 0..(Len(cur) - 1), x \in 0..(Len(cur[1]) - 1) :
               Live(CellAt(cur, x, y)) =>
                   (Live(CellAt(Result.cells, x, y))
                       <=> LiveOffsets(cur, x, y) \in {2, 3})

\* Has the step met a cell, live or dead as given, with k live neighbours,
\* where the grid written held the value was before?
Met(live, k, was) ==
    /\ Stepped
    /\ \E y \in 0..(Len(glast.pre_src.cells) - 1),
          x \in 0..(Len(glast.pre_src.cells[1]) - 1) :
           /\ Live(CellAt(glast.pre_src.cells, x, y)) = live
           /\ LiveOffsets(glast.pre_src.cells, x, y) = k
           /\ CellAt(glast.pre_dst.cells, x, y) = was

\* One step met live cells with 2, with 3 and with 4 live neighbours, the
\* grid written dead there before.
C1_Witness ==
    Met(TRUE, 2, DEAD) /\ Met(TRUE, 3, DEAD) /\ Met(TRUE, 4, DEAD)

\* C2: after such a step, a cell that was dead in the grid read is live in
\* the grid written exactly when its live-neighbour count is 3; a dead cell
\* with 2 live neighbours stays dead.
C2_DeadCellRule ==
    Stepped =>
        LET cur == glast.pre_src.cells
        IN \A y \in 0..(Len(cur) - 1), x \in 0..(Len(cur[1]) - 1) :
               ~Live(CellAt(cur, x, y)) =>
                   (Live(CellAt(Result.cells, x, y))
                       <=> LiveOffsets(cur, x, y) = 3)

\* One step met dead cells with 2, with 3 and with 4 live neighbours, the
\* grid written live there before.
C2_Witness ==
    Met(FALSE, 2, LIVE) /\ Met(FALSE, 3, LIVE) /\ Met(FALSE, 4, LIVE)

\* C3: the live_neighbors the step counts for the cell (x, y) of a W x H grid
\* is the number of the 8 offsets (dx, dy) whose cell ((x + dx) mod W,
\* (y + dy) mod H) is live; so a live (W-1, H-1) is counted by (0, 0), and a
\* live (0, 0) by (W-1, H-1).
C3_NeighbourCount ==
    Stepped =>
        LET cur == glast.pre_src.cells
            W == Len(cur[1])
            H == Len(cur)
            Counted(x, y) ==
                {e.n : e \in {glast.log[k] : k \in 1..Len(glast.log)}
                                \cap [p : {Point(x, y)}, n : 0..8]}
        IN /\ \A y \in 0..(H - 1), x \in 0..(W - 1) :
                  Counted(x, y) = {LiveOffsets(cur, x, y)}
           /\ Live(CellAt(cur, W - 1, H - 1)) =>
                  \A n \in Counted(0, 0) : n >= 1
           /\ Live(CellAt(cur, 0, 0)) =>
                  \A n \in Counted(W - 1, H - 1) : n >= 1

\* A step over a grid 3 or more wide and high whose only live cell is
\* (W-1, H-1), and a step over a grid one cell wide with a cell that counts
\* itself.
C3_Witness ==
    /\ Stepped
    /\ LET cur == glast.pre_src.cells
           W == Len(cur[1])
           H == Len(cur)
       IN \/ /\ W >= 3 /\ H >= 3
             /\ \A y \in 0..(H - 1), x \in 0..(W - 1) :
                    Live(CellAt(cur, x, y)) <=> (x = W - 1 /\ y = H - 1)
          \/ /\ W = 1 /\ H >= 3
             /\ Live(CellAt(cur, 0, 0))
             /\ LiveOffsets(cur, 0, 0) = 2

\* C4: a step of two separate grids of the same width and height leaves the
\* grid it reads unchanged (cells, width and height), has a loop turn writing
\* each cell of the grid it writes, returns that grid, and leaves in it what
\* a step from the same grid leaves in an all-dead and in an all-live grid.
C4_StepFrame ==
    Stepped =>
        LET cur == glast.pre_src.cells
            W == Len(cur[1])
            H == Len(cur)
        IN /\ Current = glast.pre_src
           /\ glast.err = "none"
           /\ glast.ret = 3 - glast.src
           /\ {glast.log[k].p : k \in 1..Len(glast.log)}
                 = {Point(x, y) : x \in 0..(W - 1), y \in 0..(H - 1)}
           /\ Result.width = glast.pre_dst.width
           /\ Result.height = glast.pre_dst.height
           /\ \A v \in Cells :
                  Result.cells = nextgen(cur, Repeat(Repeat(v, W), H)).list

\* A step has changed a cell of the grid written from live to dead and left
\* another cell of it live, over a grid read that has live and dead cells.
C4_Witness ==
    /\ Stepped
    /\ LET cur == glast.pre_src.cells
           old == glast.pre_dst.cells
           new == Result.cells
           XY == (0..(Len(cur[1]) - 1)) \X (0..(Len(cur) - 1))
       IN /\ \E c \in XY : Live(CellAt(old, c[1], c[2]))
                            /\ ~Live(CellAt(new, c[1], c[2]))
          /\ \E c \in XY : Live(CellAt(old, c[1], c[2]))
                            /\ Live(CellAt(new, c[1], c[2]))
          /\ \E c \in XY : Live(CellAt(cur, c[1], c[2]))
          /\ \E c \in XY : ~Live(CellAt(cur, c[1], c[2]))

\* ----------------------------------------------------- grid specification

\* width and height as a caller may give them.
OptDims(n) == {None} \cup {Some(k) : k \in 0..n}

\* Rows of at most MaxWidth values each, at most MaxHeight of them.
RowsOver(vals) ==
    UNION {[1..h -> UNION {[1..w -> vals] : w \in 0..MaxWidth}] :
              h \in 0..MaxHeight}

\* The values from_2d_seq is given as cells: falsy 0, truthy 1 and 2.
InputVals == {0, 1, 2}

InitGrid ==
    /\ grid1 = None /\ grid2 = None /\ glast = None
    /\ arr = <<>> /\ alast = NoOp /\ ArrayIdle /\ EqIdle

NotGridVars == <<arrayVars, removeVars, eqVars>>

\* A construction and what came of it; rows is what the cells were built
\* from (None for Grid(width, height)).
Built(op, rows, r) ==
    /\ glast' = [op |-> op, rows |-> rows, err |-> r.err]
    /\ grid1' = IF r.err = "none" THEN r.grid ELSE grid1

\* grid1 = Grid(width, height): an all-dead grid
NewGrid ==
    /\ grid1 = None
    /\ \E width \in OptDims(MaxWidth), height \in OptDims(MaxHeight) :
           Built("Grid", None, Grid(width, height, None))
    /\ UNCHANGED <<grid2, NotGridVars>>

\* grid1 = Grid(width, height, cells), cells a nested ToroidalArray of bools
NewGridCells ==
    /\ grid1 = None
    /\ \E width \in OptDims(MaxWidth), height \in OptDims(MaxHeight),
          rows \in RowsOver(Cells) :
           Built("Grid", Some(rows), Grid(width, height, Some(rows)))
    /\ UNCHANGED <<grid2, NotGridVars>>

\* grid1 = Grid.from_2d_seq(rows)
FromRows ==
    /\ grid1 = None
    /\ \E rows \in RowsOver(InputVals) :
           Built("from_2d_seq", Some(rows), from_2d_seq(rows))
    /\ UNCHANGED <<grid2, NotGridVars>>

\* grid2 = Grid(width, height): the results grid
NewBuffer ==
    /\ grid1 # None /\ grid2 = None
    /\ \E w \in 1..MaxWidth, h \in 1..MaxHeight :
           grid2' = Grid(Some(w), Some(h), None).grid
    /\ glast' = [op |-> "Grid", rows |-> None, err |-> "none"]
    /\ UNCHANGED <<grid1, NotGridVars>>

\* grid1[Point(x, y)] = value
SetCell ==
    /\ grid1 # None
    /\ \E x \in (-1)..MaxWidth, y \in (-1)..MaxHeight, value \in Cells :
           LET r == Grid_setitem(grid1.cells, Point(x, y), value)
           IN /\ grid1' = [grid1 EXCEPT !.cells = r.list]
              /\ glast' = [op |-> "setitem", rows |-> None, err |-> r.err]
    /\ UNCHANGED <<grid2, NotGridVars>>

\* nextgen(grid1, grid2)
StepGrid12 ==
    /\ grid1 # None /\ grid2 # None
    /\ LET r == nextgen(grid1.cells, grid2.cells)
       IN /\ grid2' = [grid2 EXCEPT !.cells = r.list]
          /\ glast' = [op |-> "nextgen", rows |-> None, err |-> r.err]
    /\ UNCHANGED <<grid1, NotGridVars>>

\* nextgen(grid2, grid1)
StepGrid21 ==
    /\ grid1 # None /\ grid2 # None
    /\ LET r == nextgen(grid2.cells, grid1.cells)
       IN /\ grid1' = [grid1 EXCEPT !.cells = r.list]
          /\ glast' = [op |-> "nextgen", rows |-> None, err |-> r.err]
    /\ UNCHANGED <<grid2, NotGridVars>>

NextGrid ==
    \/ NewGrid
    \/ NewGridCells
    \/ FromRows
    \/ NewBuffer
    \/ SetCell
    \/ StepGrid12
    \/ StepGrid21

SpecGrid == InitGrid /\ [][NextGrid]_vars

\* C6: a grid just built from rows has every row as long as the longest
\* input row: each input row (its cells coerced to bool, in order) followed
\* by dead cells up to that length.
C6_RowsPadded ==
    (glast # None /\ glast.rows # None /\ glast.err = "none") =>
        LET rows == glast.rows[1]
            longest == MaxOf({Len(rows[k]) : k \in 1..Len(rows)})
        IN /\ Len(grid1.cells) = Len(rows)
           /\ \A k \in 1..Len(rows) :
                  /\ Len(grid1.cells[k]) = longest
                  /\ \A j \in 1..longest :
                         grid1.cells[k][j] =
                             IF j <= Len(rows[k]) THEN bool(rows[k][j])
                             ELSE DEAD

\* width and height are positive ints, height is the number of rows, and no
\* row is longer than width.
GridWellFormed(g) ==
    /\ g.width # None /\ IntOf(g.width) > 0
    /\ g.height # None /\ IntOf(g.height) > 0
    /\ IntOf(g.height) = Len(g.cells)
    /\ \A k \in 1..Len(g.cells) : Len(g.cells[k]) <= IntOf(g.width)

\* C7: a grid that was constructed, by any route, has a positive int width
\* and height, as many rows as its height and no row longer than its width,
\* whatever set and step calls followed.
C7_DimensionsSet ==
    /\ grid1 # None => GridWellFormed(grid1)
    /\ grid2 # None => GridWellFormed(grid2)

====
